---- MODULE Spec2Model ----
(***************************************************************************)
(* Model of the asyncio HTTP/1.1 server of app/http_server.py together     *)
(* with the request parser, the router, the route handlers, the file       *)
(* manager and the response serializer it calls.                           *)
(*                                                                         *)
(* Text is modelled as a sequence of tokens.  A token is either one of the *)
(* separators the code splits on (space, "/", ":", ",", CRLF) or a word    *)
(* that contains none of them.  Two texts are equal exactly when their     *)
(* token sequences are equal.                                              *)
(***************************************************************************)
EXTENDS Integers, Sequences, FiniteSets, TLC

(***************************************************************************)
(* Bounds of the model.                                                    *)
(***************************************************************************)
NumConns == 2
MaxReads == 2

MaxRawLen == 4
MaxPathLen == 4
MaxEncodingLen == 4
MaxHeaderLen == 6

Conns == 1..NumConns

(***************************************************************************)
(* Tokens.                                                                 *)
(***************************************************************************)
SP == " "
SLASH == "/"
CRLF == "\r\n"
BadByte == "0xff"
NulByte == "0x00"

REQUEST_LINE_SEPARATOR == CRLF
HEADER_KEY_VALUE_SEPARATOR == ":"
SUPPORTED_HTTP_METHODS ==
  {<<"GET">>, <<"POST">>, <<"PUT">>, <<"DELETE">>, <<"HEAD">>, <<"OPTIONS">>, <<"PATCH">>}
SUPPORTED_COMPRESSIONS == {<<"gzip">>}

(***************************************************************************)
(* str, bytes and None are different Python types: a value carries its     *)
(* type.                                                                   *)
(***************************************************************************)
None == [ty |-> "NoneType"]
Str(t) == [ty |-> "str", v |-> t]
Bytes(t) == [ty |-> "bytes", v |-> t]

\* Number of bytes of a token (len of its UTF-8 encoding).
TokLen(t) ==
  CASE t = CRLF -> 2
    [] t = "hi" -> 2
    [] t = "abc" -> 3
    [] t = "old" -> 3
    [] t = "curl" -> 4
    [] t = "Bad" -> 3
    [] t = "Request" -> 7
    [] t = "secret" -> 6
    [] t = "gzip1f8b" -> 10
    [] t = "gzipcrc" -> 10
    [] t = "there" -> 5
    [] t = "Hi" -> 2
    [] t = "body" -> 4
    [] OTHER -> 1

RECURSIVE ByteLen(_)
ByteLen(s) == IF s = <<>> THEN 0 ELSE TokLen(Head(s)) + ByteLen(Tail(s))

(***************************************************************************)
(* str methods used by the code.                                           *)
(***************************************************************************)
\* str.lower() on one word.
LowerTok(t) ==
  CASE t = "Connection" -> "connection"
    [] t = "CLOSE" -> "close"
    [] t = "Close" -> "close"
    [] t = "Keep-Alive" -> "keep-alive"
    [] t = "Host" -> "host"
    [] t = "User-Agent" -> "user-agent"
    [] t = "USER-AGENT" -> "user-agent"
    [] t = "Accept-Encoding" -> "accept-encoding"
    [] t = "Files" -> "files"
    [] t = "Echo" -> "echo"
    [] t = "Hi" -> "hi"
    [] t = "A" -> "a"
    [] OTHER -> t

Lower(s) == [i \in 1..Len(s) |-> LowerTok(s[i])]

\* Index of the first occurrence of token t in s, 0 when absent.
Find(s, t) ==
  IF \E i \in 1..Len(s) : s[i] = t
  THEN CHOOSE i \in 1..Len(s) : s[i] = t /\ \A j \in 1..(i - 1) : s[j] # t
  ELSE 0

\* Index of the first occurrence of CRLF CRLF in s, 0 when absent.
FindBlankLine(s) ==
  IF \E i \in 1..(Len(s) - 1) : s[i] = CRLF /\ s[i + 1] = CRLF
  THEN CHOOSE i \in 1..(Len(s) - 1) :
         /\ s[i] = CRLF /\ s[i + 1] = CRLF
         /\ \A j \in 1..(i - 1) : ~(s[j] = CRLF /\ s[j + 1] = CRLF)
  ELSE 0

\* s.partition(t): <<before, after>>; <<s, "">> when t does not occur.
Partition(s, t) ==
  LET i == Find(s, t)
  IN IF i = 0 THEN <<s, <<>>>>
     ELSE <<SubSeq(s, 1, i - 1), SubSeq(s, i + 1, Len(s))>>

\* s.partition("\r\n\r\n")
PartitionBlankLine(s) ==
  LET i == FindBlankLine(s)
  IN IF i = 0 THEN <<s, <<>>>>
     ELSE <<SubSeq(s, 1, i - 1), SubSeq(s, i + 2, Len(s))>>

\* s.split(t): always at least one component.
RECURSIVE Split(_, _)
Split(s, t) ==
  LET i == Find(s, t)
  IN IF i = 0 THEN <<s>>
     ELSE <<SubSeq(s, 1, i - 1)>> \o Split(SubSeq(s, i + 1, Len(s)), t)

\* s.strip(chars)
RECURSIVE LStrip(_, _)
LStrip(s, chars) ==
  IF s # <<>> /\ Head(s) \in chars THEN LStrip(Tail(s), chars) ELSE s

RECURSIVE RStrip(_, _)
RStrip(s, chars) ==
  IF s # <<>> /\ s[Len(s)] \in chars THEN RStrip(SubSeq(s, 1, Len(s) - 1), chars) ELSE s

Strip(s, chars) == RStrip(LStrip(s, chars), chars)

Whitespace == {SP, CRLF}

\* dict.get(key, default) on a dict modelled as a function.
Get(d, k, default) == IF k \in DOMAIN d THEN d[k] ELSE default

(***************************************************************************)
(* RequestParser                                                           *)
(***************************************************************************)
Ok(x) == [tag |-> "ok", val |-> x]
Raise(e) == [tag |-> "raise", exc |-> e]

\* bytes.decode("utf-8")
Decode(raw_bytes) ==
  IF \E i \in 1..Len(raw_bytes) : raw_bytes[i] = BadByte
  THEN Raise("UnicodeDecodeError")
  ELSE Ok(raw_bytes)

\* _parse_request_line that asks for the three components of a request
\* line.
_parse_request_line_three(line) ==
  LET components == Split(line, SP)
  IN IF Len(components) < 3
     THEN Raise("InvalidRequestLineError")
     ELSE Ok(<<components[1], components[2]>>)

_parse_request_line(line) ==
  LET components == Split(line, SP)
  IN IF Len(components) < 2
     THEN Raise("InvalidRequestLineError")
     ELSE Ok(<<components[1], components[2]>>)

_validate_http_method(method) ==
  IF method \notin SUPPORTED_HTTP_METHODS
  THEN Raise("InvalidHTTPMethodError")
  ELSE Ok(None)

_parse_url(path) ==
  LET parts == Partition(Strip(path, {SLASH}), SLASH)
  IN <<Lower(parts[1]), parts[2]>>

\* The dict built by inserting the header lines in order: a later line
\* with the same key overwrites the earlier one.
RECURSIVE HeadersFrom(_, _)
HeadersFrom(lines, headers_dict) ==
  IF lines = <<>> THEN headers_dict
  ELSE LET header == Head(lines)
           kv == Partition(header, HEADER_KEY_VALUE_SEPARATOR)
           key == Lower(Strip(kv[1], Whitespace))
           value == Strip(kv[2], Whitespace)
       IN IF Find(header, HEADER_KEY_VALUE_SEPARATOR) # 0
          THEN HeadersFrom(Tail(lines),
                 [k \in DOMAIN headers_dict \cup {key} |->
                    IF k = key THEN value ELSE headers_dict[k]])
          ELSE HeadersFrom(Tail(lines), headers_dict)

\* _parse_headers that keeps the first of the lines with the same key.
_parse_headers_first_kept(header_string) ==
  LET lines == Split(header_string, REQUEST_LINE_SEPARATOR)
  IN HeadersFrom([i \in 1..Len(lines) |-> lines[Len(lines) + 1 - i]], <<>>)

_parse_headers(header_string) ==
  HeadersFrom(Split(header_string, REQUEST_LINE_SEPARATOR), <<>>)

HTTPRequest(method, path, headers, body, route, route_param) ==
  [method |-> method, path |-> path, headers |-> headers, body |-> body,
   route |-> route, route_param |-> route_param]

parse(raw_bytes) ==
  IF raw_bytes = <<>> THEN Raise("EmptyRequestError")
  ELSE
  LET decoded == Decode(raw_bytes) IN
  IF decoded.tag = "raise" THEN Raise("InvalidEncodingError")
  ELSE
  LET request == decoded.val
      p1 == Partition(request, REQUEST_LINE_SEPARATOR)
      req_line == p1[1]
      headers_and_content == p1[2]
      p2 == PartitionBlankLine(headers_and_content)
      header_string == p2[1]
      body == p2[2]
      line == _parse_request_line(req_line)
  IN IF line.tag = "raise" THEN line
     ELSE
     LET method == line.val[1]
         path == line.val[2]
     IN IF _validate_http_method(method).tag = "raise"
        THEN _validate_http_method(method)
        ELSE LET url == _parse_url(path)
             IN Ok(HTTPRequest(method, path, _parse_headers(header_string),
                               Str(body), url[1], url[2]))

(***************************************************************************)
(* FileManager.  A path is the sequence of its components below "/"; the   *)
(* file system maps the paths that exist to a directory or a regular file. *)
(***************************************************************************)
MAX_FILE_SIZE == 10 * 1024 * 1024

base_dir == <<<<"srv">>>>

Dir == [kind |-> "dir"]
\* mode: "rw" the process may read and write the file, "denied" the OS
\* refuses both (EACCES), "fault" the device fails on access (EIO).
File(data, size, mode) == [kind |-> "file", data |-> data, size |-> size, mode |-> mode]

Exists(files, p) == p \in DOMAIN files
IsFile(files, p) == Exists(files, p) /\ files[p].kind = "file"
IsDir(files, p) == Exists(files, p) /\ files[p].kind = "dir"

IsPrefix(p, q) == Len(p) <= Len(q) /\ SubSeq(q, 1, Len(p)) = p
Parent(p) == IF p = <<>> THEN <<>> ELSE SubSeq(p, 1, Len(p) - 1)

\* Path.resolve(): "" and "." components vanish, ".." removes the last
\* component (and stays at "/").
RECURSIVE Resolve(_, _)
Resolve(at, comps) ==
  IF comps = <<>> THEN at
  ELSE LET c == Head(comps)
       IN IF c = <<>> \/ c = <<".">> THEN Resolve(at, Tail(comps))
          ELSE IF c = <<"..">> THEN Resolve(Parent(at), Tail(comps))
          ELSE Resolve(Append(at, c), Tail(comps))

\* (base_dir / filename).resolve(): an absolute filename replaces base_dir.
Join(base, filename) ==
  IF filename # <<>> /\ Head(filename) = SLASH
  THEN Resolve(<<>>, Split(filename, SLASH))
  ELSE Resolve(base, Split(filename, SLASH))

\* _validate_path without the relative_to check.
_validate_path_unconfined(filename) ==
  IF Find(filename, NulByte) # 0 THEN Raise("FileSecurityError")
  ELSE Ok(Join(base_dir, filename))

_validate_path(filename) ==
  IF Find(filename, NulByte) # 0 THEN Raise("FileSecurityError")
  ELSE LET requested_path == Join(base_dir, filename)
       IN IF ~IsPrefix(base_dir, requested_path)
          THEN Raise("FileSecurityError")
          ELSE Ok(requested_path)

read_file(files, filename) ==
  LET v == _validate_path(filename) IN
  IF v.tag = "raise" THEN v
  ELSE LET file_path == v.val
       IN IF ~Exists(files, file_path) THEN Raise("FileNotFoundError")
          ELSE IF ~IsFile(files, file_path) THEN Raise("FileSecurityError")
          ELSE IF files[file_path].size > MAX_FILE_SIZE THEN Raise("FileSecurityError")
          ELSE IF files[file_path].mode = "denied" THEN Raise("PermissionError")
          ELSE IF files[file_path].mode = "fault" THEN Raise("OSError")
          ELSE Ok(Bytes(files[file_path].data))

\* Some proper ancestor of p is a regular file.
UnderFile(files, p) == \E i \in 0..(Len(p) - 1) : IsFile(files, SubSeq(p, 1, i))

\* parent.mkdir(parents=True, exist_ok=True)
Mkdir(files, d) ==
  [q \in DOMAIN files \cup {SubSeq(d, 1, i) : i \in 0..Len(d)} |->
     IF q \in DOMAIN files THEN files[q] ELSE Dir]

\* write_file that opens the file for append.
write_file_append(files, filename, content) ==
  LET v == _validate_path(filename) IN
  IF v.tag = "raise" THEN v
  ELSE LET file_path == v.val
           made == IF Exists(files, Parent(file_path)) THEN files
                   ELSE Mkdir(files, Parent(file_path))
           old == IF IsFile(made, file_path) THEN made[file_path].data ELSE <<>>
       IN IF UnderFile(files, file_path) THEN Raise("NotADirectoryError")
          ELSE IF IsDir(made, file_path) THEN Raise("IsADirectoryError")
          ELSE Ok([q \in DOMAIN made \cup {file_path} |->
                     IF q = file_path
                     THEN File(old \o content.v, ByteLen(old \o content.v), "rw")
                     ELSE made[q]])

\* The result carries the file system after the call.
write_file(files, filename, content) ==
  IF ByteLen(content.v) > MAX_FILE_SIZE THEN Raise("FileSecurityError")
  ELSE
  LET v == _validate_path(filename) IN
  IF v.tag = "raise" THEN v
  ELSE LET file_path == v.val
           parent == Parent(file_path)
           made == IF Exists(files, parent) THEN files ELSE Mkdir(files, parent)
       IN IF UnderFile(files, file_path) THEN Raise("NotADirectoryError")
          ELSE IF IsDir(made, file_path) THEN Raise("IsADirectoryError")
          ELSE IF IsFile(made, file_path) /\ made[file_path].mode = "denied"
            THEN Raise("PermissionError")
          ELSE IF IsFile(made, file_path) /\ made[file_path].mode = "fault"
            THEN Raise("OSError")
          ELSE Ok([q \in DOMAIN made \cup {file_path} |->
                     IF q = file_path
                     THEN File(content.v, ByteLen(content.v), "rw")
                     ELSE made[q]])

(***************************************************************************)
(* HttpResponse                                                            *)
(***************************************************************************)
HttpResponse(status, headers, body) ==
  [status |-> status, headers |-> headers, body |-> body]

\* HTTPStatus(code).phrase
Phrase(code) ==
  CASE code = 200 -> "OK"
    [] code = 201 -> "Created"
    [] code = 400 -> "Bad Request"
    [] code = 403 -> "Forbidden"
    [] code = 404 -> "Not Found"
    [] code = 405 -> "Method Not Allowed"
    [] code = 500 -> "Internal Server Error"
    [] OTHER -> "?"

\* headers[key] = value on an insertion-ordered dict, kept as the sequence
\* of its <<key, value>> items.
DictSet(headers, key, value) ==
  IF \E i \in 1..Len(headers) : headers[i][1] = key
  THEN [i \in 1..Len(headers) |->
          IF headers[i][1] = key THEN <<key, value>> ELSE headers[i]]
  ELSE Append(headers, <<key, value>>)

\* str.encode(): bytes has no such method.
Encode(body) ==
  IF body.ty = "str" THEN Ok(Bytes(body.v)) ELSE Raise("AttributeError")

\* gzip.compress and gzip.decompress
GzipCompress(b) == Bytes(<<"gzip1f8b">> \o b.v \o <<"gzipcrc">>)
GzipDecompress(b) == Bytes(SubSeq(b.v, 2, Len(b.v) - 1))

\* _negotiate_compression that compares the parts without strip().
_negotiate_compression_unstripped(accept_encoding) ==
  IF accept_encoding.ty = "NoneType" THEN None
  ELSE IF accept_encoding.v = <<>> THEN None
  ELSE LET requested == Split(accept_encoding.v, ",")
           IsSupported(c) == c \in SUPPORTED_COMPRESSIONS
           supported == SelectSeq(requested, IsSupported)
       IN IF supported = <<>> THEN None ELSE Str(supported[1])

_negotiate_compression(accept_encoding) ==
  IF accept_encoding.ty = "NoneType" THEN None
  ELSE IF accept_encoding.v = <<>> THEN None
  ELSE LET parts == Split(accept_encoding.v, ",")
           requested == [i \in 1..Len(parts) |-> Strip(parts[i], Whitespace)]
           IsSupported(c) == c \in SUPPORTED_COMPRESSIONS
           supported == SelectSeq(requested, IsSupported)
       IN IF supported = <<>> THEN None ELSE Str(supported[1])

\* The result carries the body bytes and the header lines after the call.
_encode_content(body, compression, headers_lines) ==
  LET encoded == Encode(body) IN
  IF encoded.tag = "raise" THEN encoded
  ELSE IF compression.ty = "str" /\ compression.v = <<"gzip">>
  THEN Ok([content |-> GzipCompress(encoded.val),
           headers_lines |-> Append(headers_lines, <<"Content-Encoding", "gzip">>)])
  ELSE Ok([content |-> encoded.val, headers_lines |-> headers_lines])

\* to_bytes that takes the length of the body before _encode_content.
to_bytes_length_first(response, compression) ==
  LET status_line == [version |-> "HTTP/1.1", code |-> response.status,
                      phrase |-> Phrase(response.status)]
      use_compression == _negotiate_compression(compression)
      enc == _encode_content(response.body, use_compression, response.headers)
  IN IF enc.tag = "raise" THEN enc
     ELSE Ok([status_line |-> status_line,
              headers_lines |-> Append(enc.val.headers_lines,
                                       <<"Content-Length",
                                         ToString(ByteLen(response.body.v))>>),
              body |-> enc.val.content])

\* The bytes of a response: status line, header lines, blank line, body.
to_bytes(response, compression) ==
  LET status_line == [version |-> "HTTP/1.1", code |-> response.status,
                      phrase |-> Phrase(response.status)]
      use_compression == _negotiate_compression(compression)
      enc == _encode_content(response.body, use_compression, response.headers)
  IN IF enc.tag = "raise" THEN enc
     ELSE Ok([status_line |-> status_line,
              headers_lines |-> Append(enc.val.headers_lines,
                                       <<"Content-Length",
                                         ToString(ByteLen(enc.val.content.v))>>),
              body |-> enc.val.content])

(***************************************************************************)
(* Route handlers.  handle gives the set of its possible outcomes: the     *)
(* response and the file system after the call, or the exception raised.   *)
(***************************************************************************)
Handled(response, files) == [tag |-> "ok", val |-> response, files |-> files]

RootHandler_handle(request) == HttpResponse(200, <<>>, Str(<<>>))

\* EchoHandler.handle that answers the first segment of the parameter.
EchoHandler_handle_first_segment(request) ==
  HttpResponse(200, <<<<"Content-Type", "text/plain">>>>,
               Str(Partition(request.route_param, SLASH)[1]))

EchoHandler_handle(request) ==
  HttpResponse(200, <<<<"Content-Type", "text/plain">>>>, Str(request.route_param))

\* UserAgentHandler.handle that looks the header up by its name as sent.
UserAgentHandler_handle_cased(request) ==
  LET user_agent == Get(request.headers, <<"User-Agent">>, <<>>)
  IN HttpResponse(200, <<<<"Content-Type", "text/plain">>>>,
                  Str(Strip(user_agent, Whitespace)))

UserAgentHandler_handle(request) ==
  LET user_agent == Get(request.headers, <<"user-agent">>, <<>>)
  IN HttpResponse(200, <<<<"Content-Type", "text/plain">>>>,
                  Str(Strip(user_agent, Whitespace)))

\* _handle_get without the last except clause answering 500.
_handle_get_other_404(files, request) ==
  LET r == read_file(files, request.route_param)
  IN IF r.tag = "ok"
     THEN HttpResponse(200, <<<<"Content-Type", "application/octet-stream">>>>, r.val)
     ELSE IF r.exc = "FileSecurityError" THEN HttpResponse(403, <<>>, Str(<<>>))
     ELSE IF r.exc = "PermissionError" THEN HttpResponse(403, <<>>, Str(<<>>))
     ELSE HttpResponse(404, <<>>, Str(<<>>))

_handle_get(files, request) ==
  LET r == read_file(files, request.route_param)
  IN IF r.tag = "ok"
     THEN HttpResponse(200, <<<<"Content-Type", "application/octet-stream">>>>, r.val)
     ELSE IF r.exc = "FileNotFoundError" THEN HttpResponse(404, <<>>, Str(<<>>))
     ELSE IF r.exc = "FileSecurityError" THEN HttpResponse(403, <<>>, Str(<<>>))
     ELSE IF r.exc = "PermissionError" THEN HttpResponse(403, <<>>, Str(<<>>))
     ELSE HttpResponse(500, <<>>, Str(<<>>))

\* _handle_post that answers without calling write_file.
_handle_post_unwritten(files, request) ==
  Handled(HttpResponse(201, <<>>, Str(<<>>)), files)

_handle_post(files, request) ==
  LET content == IF request.body.ty = "str" THEN Encode(request.body).val
                 ELSE request.body
      w == write_file(files, request.route_param, content)
  IN IF w.tag = "ok" THEN Handled(HttpResponse(201, <<>>, Str(<<>>)), w.val)
     ELSE IF w.exc = "FileSecurityError"
       THEN Handled(HttpResponse(403, <<>>, Str(<<>>)), files)
     ELSE IF w.exc = "PermissionError"
       THEN Handled(HttpResponse(403, <<>>, Str(<<>>)), files)
     ELSE Handled(HttpResponse(500, <<>>, Str(<<>>)), files)

\* FileHandler.handle that tests only for GET.
FileHandler_handle_get_or_write(files, request) ==
  IF request.method = <<"GET">> THEN Handled(_handle_get(files, request), files)
  ELSE _handle_post(files, request)

FileHandler_handle(files, request) ==
  IF request.method = <<"GET">> THEN Handled(_handle_get(files, request), files)
  ELSE IF request.method = <<"POST">> THEN _handle_post(files, request)
  ELSE Handled(HttpResponse(405, <<<<"Allow", "GET, POST">>>>, Str(<<>>)), files)

\* A handler of the RouteHandler protocol supplied with the router given
\* to HTTPServer: it returns a response or raises.
HandlerFaults == {"ValueError", "OSError"}

PluggedHandler_handle(files, request) ==
  {Handled(HttpResponse(200, <<>>, Str(<<>>)), files)}
    \cup {Raise(e) : e \in HandlerFaults}

\* A files route that stores the body whatever the method.
handle_storing(handler, files, request) ==
  CASE handler = "RootHandler" -> {Handled(RootHandler_handle(request), files)}
    [] handler = "EchoHandler" -> {Handled(EchoHandler_handle(request), files)}
    [] handler = "UserAgentHandler" -> {Handled(UserAgentHandler_handle(request), files)}
    [] handler = "FileHandler" -> {_handle_post(files, request)}
    [] OTHER -> PluggedHandler_handle(files, request)

handle(handler, files, request) ==
  CASE handler = "RootHandler" -> {Handled(RootHandler_handle(request), files)}
    [] handler = "EchoHandler" -> {Handled(EchoHandler_handle(request), files)}
    [] handler = "UserAgentHandler" -> {Handled(UserAgentHandler_handle(request), files)}
    [] handler = "FileHandler" -> {FileHandler_handle(files, request)}
    [] OTHER -> PluggedHandler_handle(files, request)

(***************************************************************************)
(* Router                                                                  *)
(***************************************************************************)
register(handlers, route, handler) ==
  [r \in DOMAIN handlers \cup {route} |->
     IF r = route THEN handler ELSE handlers[r]]

\* A dispatch that registers the root handler for a route it did not know.
handlers_after_dispatch_learning(handlers, request) ==
  IF request.route \in DOMAIN handlers THEN handlers
  ELSE register(handlers, request.route, "RootHandler")

\* Router._handlers after dispatch(request): dispatch only reads it.
handlers_after_dispatch(handlers, request) == handlers

\* dispatch that takes the handler of a key the route begins with.
dispatch_by_prefix(handlers, files, request) ==
  LET keys == {k \in DOMAIN handlers : k # <<>> /\ IsPrefix(k, request.route)}
  IN IF keys = {}
     THEN {Handled(HttpResponse(404, <<>>, Str(<<>>)), files)}
     ELSE handle(handlers[CHOOSE k \in keys : TRUE], files, request)

dispatch(handlers, files, request) ==
  IF request.route \notin DOMAIN handlers
  THEN {Handled(HttpResponse(404, <<>>, Str(<<>>)), files)}
  ELSE handle(handlers[request.route], files, request)

\* _create_default_router that registers the files route without the
\* checks of FileManager.__init__.
_create_default_router_unchecked(files) ==
  register(register(register(register(<<>>, <<>>, "RootHandler"),
                             <<"echo">>, "EchoHandler"),
                    <<"user-agent">>, "UserAgentHandler"),
           <<"files">>, "FileHandler")

\* FileManager.__init__ raises ValueError when the directory is missing;
\* the files route is then not registered.
_create_default_router(files) ==
  LET r3 == register(register(register(<<>>, <<>>, "RootHandler"),
                              <<"echo">>, "EchoHandler"),
                     <<"user-agent">>, "UserAgentHandler")
  IN IF IsDir(files, base_dir) THEN register(r3, <<"files">>, "FileHandler") ELSE r3

(***************************************************************************)
(* HTTPServer: the connection loop of _handle_connection.  The loop runs   *)
(* on one event loop, so the code between two awaits is one step: a read   *)
(* that completes is parsed, dispatched, serialized and handed to          *)
(* writer.write in the same step; the await of writer.drain is the next    *)
(* suspension point.                                                       *)
(***************************************************************************)
VARIABLES
  _handlers,        \* Router._handlers of the server's router
  files,            \* the file system
  state,            \* per connection: where the loop of the connection is
  raw_request,      \* per connection: bytes of the last completed read
  http_request,     \* per connection: the parsed request, None if none
  response,         \* per connection: the router's response, None if none
  should_close,     \* per connection: result of _should_close_connection
  sending,          \* per connection: the _send_response call in progress
  sent,             \* per connection: bytes last given to writer.write
  nreads,           \* per connection: completed reads
  nwrites,          \* per connection: calls of writer.write
  last_read,        \* per connection: how the last read ended
  last_exc,         \* per connection: exception that left the loop
  transport_error,  \* per connection: a read or drain raised a socket error
  last_status,      \* per connection: status code last written, 0 if none
  prev_status,      \* per connection: status code written before that one
  bad_close,        \* per connection: a 400 answered a request that asked to close
  posted,           \* path -> body of the last POST answered 201
  pure_in,          \* the call of a function on its own: its name and argument
  pure_out          \* the value that call returned

vars == <<_handlers, files, state, raw_request, http_request, response,
          should_close, sending, sent, nreads, nwrites, last_read, last_exc,
          transport_error, last_status, prev_status, bad_close, posted,
          pure_in, pure_out>>

_should_close_connection(request, resp) ==
  LET connection_header == Lower(Get(request.headers, <<"connection">>, <<>>))
  IN IF connection_header = <<"close">>
     THEN [close |-> TRUE,
           response |-> [resp EXCEPT !.headers = DictSet(@, "Connection", "close")]]
     ELSE [close |-> FALSE, response |-> resp]

TimeoutErrors == {"TimeoutError"}
SocketErrors == {"ConnectionResetError", "BrokenPipeError"}
OSErrors == SocketErrors \cup TimeoutErrors \cup
  {"OSError", "FileNotFoundError", "PermissionError", "IsADirectoryError",
   "NotADirectoryError"}

\* The except clauses without "except OSError".
ExceptClause_no_oserror(exc) ==
  IF exc \in TimeoutErrors THEN "TimeoutError"
  ELSE IF exc = "IncompleteReadError" THEN "IncompleteReadError"
  ELSE "Exception"

\* The except clause of _handle_connection that catches exc.
ExceptClause(exc) ==
  IF exc \in TimeoutErrors THEN "TimeoutError"
  ELSE IF exc = "IncompleteReadError" THEN "IncompleteReadError"
  ELSE IF exc \in OSErrors THEN "OSError"
  ELSE "Exception"

BadRequestResponse == HttpResponse(400, <<>>, Str(<<"Bad", SP, "Request">>))
ServerErrorResponse == HttpResponse(500, <<>>, Str(<<>>))

\* What one pass of the loop body leaves behind, up to its writer.write.
Pass(req, resp, close, what, bytes, fs, exc) ==
  [http_request |-> req, response |-> resp, should_close |-> close,
   sending |-> what, sent |-> bytes, files |-> fs, exc |-> exc]

\* An exception raised inside the loop, after the read.
Caught(req, resp, fs, exc) ==
  IF ExceptClause(exc) = "Exception"
  THEN Pass(req, resp, FALSE, "server_error",
            to_bytes(ServerErrorResponse, None).val, fs, exc)
  ELSE Pass(req, resp, FALSE, "none", None, fs, exc)

AcceptEncoding(request) ==
  IF <<"accept-encoding">> \in DOMAIN request.headers
  THEN Str(request.headers[<<"accept-encoding">>])
  ELSE None

Dispatched(req, fs, outcome) ==
  IF outcome.tag = "raise" THEN Caught(req, None, fs, outcome.exc)
  ELSE LET sc == _should_close_connection(req, outcome.val)
           bytes == to_bytes(sc.response, AcceptEncoding(req))
       IN IF bytes.tag = "raise"
          THEN Caught(req, sc.response, outcome.files, bytes.exc)
          ELSE Pass(req, sc.response, sc.close, "response", bytes.val,
                    outcome.files, "none")

\* The loop body for a read that returned raw: the set of its outcomes.
LoopBody(handlers, fs, raw) ==
  LET parsed == parse(raw)
  IN IF parsed.tag = "raise"
     THEN {Pass(None, None, FALSE, "bad_request",
                to_bytes(BadRequestResponse, None).val, fs, "none")}
     ELSE {Dispatched(parsed.val, fs, o) : o \in dispatch(handlers, fs, parsed.val)}

\* The result of one completed read: data (b"" at end of stream), the
\* timeout of wait_for, or an exception of the transport.
ReadData(d) == [kind |-> "data", data |-> d]
ReadTimeout == [kind |-> "timeout"]
ReadRaise(e) == [kind |-> "raise", exc |-> e]

\* _receive_request without the "if not data" test.
_receive_request_no_eof(read) ==
  IF read.kind = "timeout" THEN None ELSE Bytes(read.data)

_receive_request(read) ==
  IF read.kind = "timeout" THEN None
  ELSE IF read.data = <<>> THEN None
  ELSE Bytes(read.data)

\* One iteration of the while loop from the completion of its read.
Iteration(handlers, fs, read) ==
  IF read.kind = "raise" THEN {Caught(None, None, fs, read.exc)}
  ELSE LET raw == _receive_request(read)
       IN IF raw.ty = "NoneType"
          THEN {Pass(None, None, FALSE, "none", None, fs, "none")}
          ELSE LoopBody(handlers, fs, raw.v)

\* The loop with "break" in place of "continue" after the 400 response.
AfterSend_break(what, close) ==
  IF what = "response" /\ ~close THEN "AwaitingRequest" ELSE "Closing"

\* Where the loop goes when the drain of _send_response returns.
AfterSend(what, close) ==
  IF what = "bad_request" THEN "AwaitingRequest"
  ELSE IF what = "response" THEN (IF close THEN "Closing" ELSE "AwaitingRequest")
  ELSE "Closing"

\* A loop that reads again without awaiting the drain of its send.
CanRead_no_await(c) == state[c] \in {"AwaitingRequest", "Sending"}

\* The loop is suspended in the read of _receive_request.
CanRead(c) == state[c] = "AwaitingRequest"

(***************************************************************************)
(* The requests clients send.                                              *)
(***************************************************************************)
Line(method, path) == <<method, SP>> \o path \o <<SP, "HTTP/1.1", CRLF>>
Header(name, value) == <<name, ":", SP>> \o value \o <<CRLF>>
Host == Header("Host", <<"x">>)
FilePath(name) == <<SLASH, "files", SLASH>> \o name

RawRequests ==
  { Line("GET", <<SLASH>>) \o <<CRLF>>,
    Line("GET", <<SLASH, "echo", SLASH, "hi">>) \o Header("Connection", <<"close">>) \o <<CRLF>>,
    Line("GET", <<SLASH, "nope">>) \o Host \o <<CRLF>>,
    Line("GET", <<SLASH, "hook">>) \o Host \o <<CRLF>>,
    Line("GET", FilePath(<<"a">>)) \o Host \o <<CRLF>>,
    Line("GET", FilePath(<<"a">>)) \o Header("connection", <<"CLOSE">>) \o <<CRLF>>,
    Line("GET", FilePath(<<"b">>)) \o Host \o <<CRLF>>,
    Line("GET", FilePath(<<"big">>)) \o Host \o <<CRLF>>,
    Line("GET", FilePath(<<"..", SLASH, "secret">>)) \o Host \o <<CRLF>>,
    Line("GET", FilePath(<<"..", SLASH, "nothing">>)) \o Host \o <<CRLF>>,
    Line("POST", FilePath(<<"..", SLASH, "secret">>)) \o Host \o <<CRLF, "x">>,
    Line("POST", FilePath(<<SLASH, "nothing">>)) \o Host \o <<CRLF, "x">>,
    Line("POST", FilePath(<<"a">>)) \o Host \o <<CRLF, "abc">>,
    Line("POST", FilePath(<<"b">>)) \o Host \o <<CRLF, "x">>,
    Line("TRACE", <<SLASH>>) \o Header("Connection", <<"close">>) \o <<CRLF>>,
    <<"GET", CRLF, CRLF>>,
    <<BadByte>> }

AcceptGzip == Header("Accept-Encoding", <<"gzip">>)
EchoPath(text) == <<SLASH, "echo", SLASH>> \o text

\* More requests, sent by a single client.
WideRequests ==
  RawRequests \cup
  { Line("GET", FilePath(<<"locked">>)) \o Host \o <<CRLF>>,
    Line("POST", FilePath(<<"locked">>)) \o Host \o <<CRLF, "x">>,
    Line("GET", FilePath(<<"broken">>)) \o Host \o <<CRLF>>,
    Line("POST", FilePath(<<"broken">>)) \o Host \o <<CRLF, "x">>,
    Line("POST", FilePath(<<>>)) \o Host \o <<CRLF, "x">>,
    Line("POST", FilePath(<<"a", SLASH, "x">>)) \o Host \o <<CRLF, "x">>,
    Line("POST", FilePath(<<"sub", SLASH, "c">>)) \o Host \o <<CRLF, "abc">>,
    Line("POST", FilePath(<<"a">>)) \o <<CRLF, "abc">>,
    Line("GET", FilePath(<<"a">>)) \o AcceptGzip \o <<CRLF>>,
    Line("GET", EchoPath(<<"hi">>)) \o AcceptGzip \o <<CRLF>>,
    Line("GET", EchoPath(<<"hi">>)) \o AcceptGzip
      \o Header("Connection", <<"close">>) \o <<CRLF>>,
    Line("GET", <<SLASH>>) \o Header("Accept-Encoding", <<"deflate", ",", SP, "gzip">>)
      \o <<CRLF>>,
    Line("GET", <<SLASH>>) \o Header("Accept-Encoding", <<"deflate">>) \o <<CRLF>>,
    Line("GET", EchoPath(<<"hi", SLASH>>)) \o Host \o <<CRLF>>,
    Line("GET", EchoPath(<<"hi", SLASH, "there">>)) \o Host \o <<CRLF>>,
    Line("GET", EchoPath(<<SLASH, "hi">>)) \o Host \o <<CRLF>>,
    Line("GET", <<SLASH, "Echo", SLASH, "Hi">>) \o Host \o <<CRLF>>,
    Line("GET", <<SLASH, "echo">>) \o Host \o <<CRLF>>,
    Line("GET", <<SLASH, "echo", ":", "x", SLASH, "hi">>) \o Host \o <<CRLF>>,
    Line("GET", <<SLASH, "files", ":", "x", SLASH, "a">>) \o Host \o <<CRLF>>,
    Line("POST", <<SLASH, "files", ":", "x", SLASH, "a">>) \o Host \o <<CRLF, "x">>,
    Line("GET", <<SLASH, "user-agent">>) \o Header("User-Agent", <<"curl">>) \o <<CRLF>>,
    Line("GET", <<SLASH, "user-agent">>) \o Host \o <<CRLF>>,
    Line("GET", <<SLASH, "user-agent">>) \o Host
      \o Header("USER-AGENT", <<SP, "curl", SLASH, "7", SP, "x", SP>>) \o <<CRLF>>,
    Line("POST", <<SLASH, "user-agent">>) \o Header("user-agent", <<"curl">>)
      \o AcceptGzip \o <<CRLF, "body">>,
    Line("GET", <<SLASH>>) \o <<CRLF>>
      \o Line("GET", EchoPath(<<"hi">>)) \o Host \o <<CRLF>>,
    <<"GET", SP, SLASH, "echo">>,
    <<SLASH, "hi", SP, "HTTP/1.1", CRLF>> \o Host \o <<CRLF>> }
  \cup { Line(m[1], FilePath(<<"a">>)) \o Host \o <<CRLF, "x">> :
           m \in SUPPORTED_HTTP_METHODS \ {<<"GET">>, <<"POST">>} }
  \cup { Line(m[1], EchoPath(<<"hi">>)) \o Host \o <<CRLF, "body">> :
           m \in SUPPORTED_HTTP_METHODS }

(***************************************************************************)
(* Initial state: the files directory exists or not, the route table is    *)
(* built by _create_default_router or given with one more handler.         *)
(***************************************************************************)
Outside == (<<>> :> Dir) @@ (<<<<"secret">>>> :> File(<<"secret">>, 6, "rw"))

\* The configured directory is a regular file.
NotADirectory == Outside @@ (base_dir :> File(<<"old">>, 3, "rw"))

Served ==
  Outside @@ (base_dir :> Dir)
    @@ (Append(base_dir, <<"a">>) :> File(<<"old">>, 3, "rw"))
    @@ (Append(base_dir, <<"big">>) :> File(<<"big">>, MAX_FILE_SIZE + 1, "rw"))
    @@ (Append(base_dir, <<"locked">>) :> File(<<"old">>, 3, "denied"))
    @@ (Append(base_dir, <<"broken">>) :> File(<<"old">>, 3, "fault"))

Routers(fs) ==
  {_create_default_router(fs)} \cup
  (IF IsDir(fs, base_dir)
   THEN {register(_create_default_router(fs), <<"hook">>, "PluggedHandler")}
   ELSE {})

\* No function is called on its own.
Idle == [tag |-> "idle"]

InitServer ==
  /\ files \in {Served, Outside, NotADirectory}
  /\ _handlers \in Routers(files)
  /\ state = [c \in Conns |-> "Pending"]
  /\ raw_request = [c \in Conns |-> <<>>]
  /\ http_request = [c \in Conns |-> None]
  /\ response = [c \in Conns |-> None]
  /\ should_close = [c \in Conns |-> FALSE]
  /\ sending = [c \in Conns |-> "none"]
  /\ sent = [c \in Conns |-> None]
  /\ nreads = [c \in Conns |-> 0]
  /\ nwrites = [c \in Conns |-> 0]
  /\ last_read = [c \in Conns |-> "none"]
  /\ last_exc = [c \in Conns |-> "none"]
  /\ transport_error = [c \in Conns |-> FALSE]
  /\ last_status = [c \in Conns |-> 0]
  /\ prev_status = [c \in Conns |-> 0]
  /\ bad_close = [c \in Conns |-> FALSE]
  /\ posted = <<>>

Init == InitServer /\ pure_in = Idle /\ pure_out = Idle

RECURSIVE Sum(_, _)
Sum(f, n) == IF n = 0 THEN 0 ELSE f[n] + Sum(f, n - 1)

StatusOf(bytes) == IF bytes = None THEN 0 ELSE bytes.status_line.code

\* The POST the pass answered 201, as <<path, body>>, or <<>>.
Posted(o) ==
  IF /\ o.http_request # None /\ o.response # None
     /\ o.http_request.route = <<"files">>
     /\ o.http_request.method = <<"POST">>
     /\ o.response.status = 201
  THEN <<_validate_path(o.http_request.route_param).val,
         Encode(o.http_request.body).val>>
  ELSE <<>>

\* The bytes carry the header line "Connection: close", in any case.
AsksClose(raw) ==
  \E i \in 1..(Len(raw) - 3) :
    /\ LowerTok(raw[i]) = "connection" /\ raw[i + 1] = ":"
    /\ raw[i + 2] = SP /\ LowerTok(raw[i + 3]) = "close"

\* The state after the pass o of connection c that began with read.  The
\* request, the response and the bytes of a pass are kept while their
\* send is in progress.
Step(c, read, how, o) ==
  LET wrote == o.sent # None
      kept == o.sending # "none"
  IN
  /\ files' = o.files
  /\ state' = [state EXCEPT ![c] = IF kept THEN "Sending" ELSE "Closing"]
  /\ raw_request' = [raw_request EXCEPT ![c] = IF kept /\ read.kind = "data" THEN read.data ELSE <<>>]
  /\ http_request' = [http_request EXCEPT ![c] = IF kept THEN o.http_request ELSE None]
  /\ response' = [response EXCEPT ![c] = IF kept THEN o.response ELSE None]
  /\ should_close' = [should_close EXCEPT ![c] = o.should_close]
  /\ sending' = [sending EXCEPT ![c] = o.sending]
  /\ sent' = [sent EXCEPT ![c] = o.sent]
  /\ nreads' = [nreads EXCEPT ![c] = @ + 1]
  /\ nwrites' = [nwrites EXCEPT ![c] = IF wrote THEN @ + 1 ELSE @]
  /\ last_read' = [last_read EXCEPT ![c] = how]
  /\ last_exc' = [last_exc EXCEPT ![c] = o.exc]
  /\ transport_error' = [transport_error EXCEPT ![c] = read.kind = "raise"]
  /\ last_status' = [last_status EXCEPT ![c] = IF wrote THEN StatusOf(o.sent) ELSE @]
  /\ prev_status' = [prev_status EXCEPT ![c] = IF wrote THEN last_status[c] ELSE @]
  /\ bad_close' = [bad_close EXCEPT ![c] =
                     @ \/ (o.sending = "bad_request" /\ read.kind = "data"
                            /\ AsksClose(read.data))]
  /\ posted' = IF Posted(o) = <<>> THEN posted
               ELSE [p \in DOMAIN posted \cup {Posted(o)[1]} |->
                       IF p = Posted(o)[1] THEN Posted(o)[2] ELSE posted[p]]
  /\ _handlers' = IF o.http_request = None THEN _handlers
                  ELSE handlers_after_dispatch(_handlers, o.http_request)
  /\ UNCHANGED <<pure_in, pure_out>>

\* asyncio.start_server calls _handle_connection for a new connection.
Accept(c) ==
  /\ state[c] = "Pending"
  /\ state' = [state EXCEPT ![c] = "AwaitingRequest"]
  /\ UNCHANGED <<_handlers, files, raw_request, http_request, response,
                 should_close, sending, sent, nreads, nwrites, last_read,
                 last_exc, transport_error, last_status, prev_status, bad_close, posted,
                 pure_in, pure_out>>

\* A server that reads from a connection only when no other connection is
\* open.
ReceiveData_serial(c, raw) ==
  /\ CanRead(c)
  /\ \A d \in Conns \ {c} : state[d] \notin {"AwaitingRequest", "Sending"}
  /\ Sum(nreads, NumConns) < MaxReads
  /\ \E o \in Iteration(_handlers, files, ReadData(raw)) :
        Step(c, ReadData(raw), "data", o)

ReceiveData(c, raw) ==
  /\ CanRead(c)
  /\ Sum(nreads, NumConns) < MaxReads
  /\ \E o \in Iteration(_handlers, files, ReadData(raw)) :
        Step(c, ReadData(raw), "data", o)

ReceiveEOF(c) ==
  /\ CanRead(c)
  /\ \E o \in Iteration(_handlers, files, ReadData(<<>>)) :
        Step(c, ReadData(<<>>), "eof", o)

\* A timer that is armed for the first read of a connection only.
ReceiveTimeout_first_read_only(c) ==
  /\ CanRead(c) /\ nreads[c] = 0
  /\ \E o \in Iteration(_handlers, files, ReadTimeout) :
        Step(c, ReadTimeout, "timeout", o)

ReceiveTimeout(c) ==
  /\ CanRead(c)
  /\ \E o \in Iteration(_handlers, files, ReadTimeout) :
        Step(c, ReadTimeout, "timeout", o)

ReceiveError(c, exc) ==
  /\ CanRead(c)
  /\ \E o \in Iteration(_handlers, files, ReadRaise(exc)) :
        Step(c, ReadRaise(exc), "error", o)

\* The state of connection c when its send is over and o is what follows:
\* nothing, or the write of the 500 response.
Sent(c, next, o) ==
  LET wrote == o.sent # None
      kept == o.sending # "none"
  IN
  /\ state' = [state EXCEPT ![c] = next]
  /\ raw_request' = [raw_request EXCEPT ![c] = IF kept THEN @ ELSE <<>>]
  /\ http_request' = [http_request EXCEPT ![c] = IF kept THEN @ ELSE None]
  /\ response' = [response EXCEPT ![c] = IF kept THEN @ ELSE None]
  /\ should_close' = [should_close EXCEPT ![c] = FALSE]
  /\ sending' = [sending EXCEPT ![c] = o.sending]
  /\ sent' = [sent EXCEPT ![c] = o.sent]
  /\ nwrites' = [nwrites EXCEPT ![c] = IF wrote THEN @ + 1 ELSE @]
  /\ last_exc' = [last_exc EXCEPT ![c] = o.exc]
  /\ last_status' = [last_status EXCEPT ![c] = IF wrote THEN StatusOf(o.sent) ELSE @]
  /\ prev_status' = [prev_status EXCEPT ![c] = IF wrote THEN last_status[c] ELSE @]
  /\ UNCHANGED <<_handlers, files, nreads, last_read, bad_close, posted,
                 pure_in, pure_out>>

\* writer.drain() returns.
DrainOk(c) ==
  /\ state[c] = "Sending"
  /\ Sent(c, AfterSend(sending[c], should_close[c]),
          Pass(None, None, FALSE, "none", None, files, last_exc[c]))
  /\ UNCHANGED transport_error

\* writer.drain() raises exc.  Inside the handler of "except Exception"
\* the exception is logged; elsewhere the except clauses of the loop
\* take it.
DrainError(c, exc) ==
  /\ state[c] = "Sending"
  /\ LET o == IF sending[c] = "server_error"
              THEN Pass(None, None, FALSE, "none", None, files, last_exc[c])
              ELSE Caught(http_request[c], response[c], files, exc)
     IN Sent(c, IF o.sending = "none" THEN "Closing" ELSE "Sending", o)
  /\ transport_error' = [transport_error EXCEPT ![c] = TRUE]

\* The socket errors the transport raises in a read and in a drain.
ReadErrors == {"ConnectionResetError"}
WriteErrors == {"BrokenPipeError"}

Next ==
  \E c \in Conns :
    \/ Accept(c)
    \/ \E raw \in RawRequests : ReceiveData(c, raw)
    \/ ReceiveEOF(c)
    \/ ReceiveTimeout(c)
    \/ \E exc \in ReadErrors : ReceiveError(c, exc)
    \/ DrainOk(c)
    \/ \E exc \in WriteErrors : DrainError(c, exc)

Spec == Init /\ [][Next]_vars

(***************************************************************************)
(* One client and the wider set of requests.                               *)
(***************************************************************************)
Client == 1

NextWide ==
  \/ Accept(Client)
  \/ \E raw \in WideRequests : ReceiveData(Client, raw)
  \/ ReceiveEOF(Client)
  \/ ReceiveTimeout(Client)
  \/ \E exc \in ReadErrors : ReceiveError(Client, exc)
  \/ DrainOk(Client)
  \/ \E exc \in WriteErrors : DrainError(Client, exc)

SpecWide == Init /\ [][NextWide]_vars

(***************************************************************************)
(* RequestParser.parse and HttpResponse.to_bytes called on their own, on   *)
(* every input up to a length.                                             *)
(***************************************************************************)
SeqsUpTo(alphabet, n) == UNION {[1..k -> alphabet] : k \in 0..n}

RawAlphabet == {"GET", "TRACE", SP, CRLF, BadByte}
PathAlphabet == {SLASH, "Echo", "a", ":"}
EncodingAlphabet == {"gzip", "deflate", ",", SP}
HeaderAlphabet == {"A", "b", ":", SP, CRLF}

RequestTails == {<<>>, <<SP, "HTTP/1.1", CRLF, CRLF>>}

ParseCalls ==
  {[tag |-> "parse", arg |-> Bytes(raw)] : raw \in SeqsUpTo(RawAlphabet, MaxRawLen)}
    \cup {[tag |-> "parse", arg |-> Bytes(<<"GET", SP>> \o path \o tail)] :
            path \in SeqsUpTo(PathAlphabet, MaxPathLen), tail \in RequestTails}

Responses ==
  {HttpResponse(200, <<<<"Content-Type", "text/plain">>>>, Str(<<"hi">>)),
   HttpResponse(404, <<>>, Str(<<>>))}

ToBytesCalls ==
  {[tag |-> "to_bytes", arg |-> e, response |-> r] :
     e \in {None} \cup {Str(v) : v \in SeqsUpTo(EncodingAlphabet, MaxEncodingLen)},
     r \in Responses}

ParseHeadersCalls ==
  {[tag |-> "_parse_headers", arg |-> Str(h)] :
     h \in SeqsUpTo(HeaderAlphabet, MaxHeaderLen)}

ApplyParse ==
  /\ pure_in.tag = "parse" /\ pure_out = Idle
  /\ pure_out' = parse(pure_in.arg.v)
  /\ UNCHANGED <<_handlers, files, state, raw_request, http_request, response,
                 should_close, sending, sent, nreads, nwrites, last_read, last_exc,
                 transport_error, last_status, prev_status, bad_close, posted,
                 pure_in>>

ApplyToBytes ==
  /\ pure_in.tag = "to_bytes" /\ pure_out = Idle
  /\ pure_out' = to_bytes(pure_in.response, pure_in.arg)
  /\ UNCHANGED <<_handlers, files, state, raw_request, http_request, response,
                 should_close, sending, sent, nreads, nwrites, last_read, last_exc,
                 transport_error, last_status, prev_status, bad_close, posted,
                 pure_in>>

ApplyParseHeaders ==
  /\ pure_in.tag = "_parse_headers" /\ pure_out = Idle
  /\ pure_out' = Ok(_parse_headers(pure_in.arg.v))
  /\ UNCHANGED <<_handlers, files, state, raw_request, http_request, response,
                 should_close, sending, sent, nreads, nwrites, last_read, last_exc,
                 transport_error, last_status, prev_status, bad_close, posted,
                 pure_in>>

InitPure ==
  /\ InitServer /\ files = Served /\ _handlers = _create_default_router(files)
  /\ pure_in \in ParseCalls \cup ToBytesCalls \cup ParseHeadersCalls
  /\ pure_out = Idle

NextPure == ApplyParse \/ ApplyToBytes \/ ApplyParseHeaders

SpecPure == InitPure /\ [][NextPure]_vars

TypeOK ==
  /\ \A c \in Conns : state[c] \in {"Pending", "AwaitingRequest", "Sending", "Closing"}
  /\ \A c \in Conns : sending[c] \in {"none", "bad_request", "response", "server_error"}

(***************************************************************************)
(* Properties                                                              *)
(***************************************************************************)
\* Connection c completes a read in this step.
Reads(c) == nreads'[c] = nreads[c] + 1

\* The request's connection header equals "close", case-insensitively.
ConnectionClose(request) ==
  Lower(Get(request.headers, <<"connection">>, <<>>)) = <<"close">>

\* The bytes carry the header line "name: value".
HasLine(bytes, name, value) ==
  \E i \in 1..Len(bytes.headers_lines) : bytes.headers_lines[i] = <<name, value>>

\* The request is for the files route with the given method.
OnFiles(request, method) ==
  request.route = <<"files">> /\ request.method = method

\* The name resolves outside the storage root.
Escapes(name) == ~IsPrefix(base_dir, Join(base_dir, name))

\* C1: while the response to a parsed request whose connection header is
\* "close" (in any case) is being sent, the bytes written carry the line
\* "Connection: close", and the connection then closes without another
\* read.
C1_CloseRequestClosed ==
  [][\A c \in Conns :
       (state[c] = "Sending" /\ http_request[c] # None
          /\ ConnectionClose(http_request[c]))
       => (HasLine(sent[c], "Connection", "close")
             /\ state'[c] \in {"Sending", "Closing"})]_vars

\* C2: when the response the router produced for a parsed request without
\* "Connection: close" has been sent (the drain returned), the connection
\* is back in AwaitingRequest.
C2_KeepAliveReturns ==
  [][\A c \in Conns :
       (state[c] = "Sending" /\ http_request[c] # None /\ response[c] # None
          /\ ~ConnectionClose(http_request[c])
          /\ state'[c] # "Sending" /\ ~transport_error'[c])
       => state'[c] = "AwaitingRequest"]_vars

\* C3: a non-empty read that fails to parse is answered 400 without a
\* router response and without touching the files, and when that send is
\* over without a socket error the connection is in AwaitingRequest.
C3_ParseErrorKeepsOpen ==
  [][\A c \in Conns :
       /\ (Reads(c) /\ last_read'[c] = "data" /\ last_exc'[c] = "none")
            => state'[c] = "Sending"
       /\ (Reads(c) /\ state'[c] = "Sending" /\ parse(raw_request'[c]).tag = "raise")
            => /\ sending'[c] = "bad_request"
               /\ StatusOf(sent'[c]) = 400
               /\ http_request'[c] = None /\ response'[c] = None
               /\ files' = files
       /\ (state[c] = "Sending" /\ sending[c] = "bad_request" /\ ~transport_error'[c])
            => state'[c] \in {"Sending", "AwaitingRequest"}]_vars

\* A valid request is answered 200 on a connection whose previous request
\* was malformed, carried "Connection: close" and was answered 400.
C3_Witness ==
  \E c \in Conns :
    /\ bad_close[c] /\ prev_status[c] = 400 /\ last_status[c] = 200
    /\ state[c] = "Sending" /\ sending[c] = "response"

\* C4: a GET of a name inside the root whose last write was a POST answered
\* 201 is answered 200 with the body of that POST.
C4_RoundTrip ==
  [][\A c \in Conns :
       (Reads(c) /\ state'[c] = "Sending" /\ http_request'[c] # None
          /\ OnFiles(http_request'[c], <<"GET">>)
          /\ ~Escapes(http_request'[c].route_param)
          /\ Join(base_dir, http_request'[c].route_param) \in DOMAIN posted)
       => /\ StatusOf(sent'[c]) = 200
          /\ sent'[c].body = posted[Join(base_dir, http_request'[c].route_param)]]_vars

\* C5: a GET on the files route is answered 404 when the file does not
\* exist, 403 on a security violation, and otherwise 200 with
\* "Content-Type: application/octet-stream" and the bytes of the file.
C5_FilesGet ==
  [][\A c \in Conns :
       (Reads(c) /\ state'[c] = "Sending" /\ http_request'[c] # None
          /\ OnFiles(http_request'[c], <<"GET">>)
          /\ <<"files">> \in DOMAIN _handlers)
       => LET r == read_file(files, http_request'[c].route_param)
          IN IF r.tag = "ok"
             THEN /\ StatusOf(sent'[c]) = 200
                  /\ HasLine(sent'[c], "Content-Type", "application/octet-stream")
                  /\ sent'[c].body = r.val
             ELSE IF r.exc = "FileNotFoundError" THEN StatusOf(sent'[c]) = 404
             ELSE StatusOf(sent'[c]) = 403]_vars

\* C6: a GET or POST on the files route whose name resolves outside the
\* storage root is answered 403 with an empty body, and no step changes a
\* path outside the root.
C6_Traversal ==
  [][/\ \A c \in Conns :
          (Reads(c) /\ state'[c] = "Sending" /\ http_request'[c] # None
             /\ (OnFiles(http_request'[c], <<"GET">>) \/ OnFiles(http_request'[c], <<"POST">>))
             /\ <<"files">> \in DOMAIN _handlers
             /\ Escapes(http_request'[c].route_param))
          => /\ StatusOf(sent'[c]) = 403
             /\ sent'[c].body = Bytes(<<>>)
             /\ response'[c].status = 403 /\ response'[c].body = Str(<<>>)
     /\ \A p \in DOMAIN files \cup DOMAIN files' :
          IsPrefix(base_dir, p)
            \/ (p \in DOMAIN files /\ p \in DOMAIN files' /\ files'[p] = files[p])]_vars

\* A POST to a name outside the root is answered 403 while another
\* connection is answered 403 for a GET of such a name.
C6_Witness ==
  \E c, d \in Conns :
    /\ state[c] = "Sending" /\ http_request[c] # None
    /\ OnFiles(http_request[c], <<"POST">>) /\ Escapes(http_request[c].route_param)
    /\ StatusOf(sent[c]) = 403
    /\ state[d] = "Sending" /\ http_request[d] # None
    /\ OnFiles(http_request[d], <<"GET">>) /\ Escapes(http_request[d].route_param)
    /\ StatusOf(sent[d]) = 403

\* C7: a read completes only when the loop awaits a request with no send
\* in progress and every earlier read answered; every write answers the
\* latest read.  Reads and writes of a connection alternate.
C7_Sequential ==
  [][\A c \in Conns :
       /\ nreads'[c] # nreads[c]
            => /\ state[c] = "AwaitingRequest" /\ sending[c] = "none"
               /\ nwrites[c] = nreads[c]
               /\ nreads'[c] = nreads[c] + 1
       /\ nwrites'[c] # nwrites[c]
            => nwrites'[c] = nwrites[c] + 1 /\ nwrites'[c] = nreads'[c]]_vars

\* A connection has answered two requests.
C7_Witness == \E c \in Conns : nreads[c] = 2 /\ nwrites[c] = 2

\* C8: an exception raised in the loop after a request was read causes the
\* write of one 500 response.
C8_FaultGives500 ==
  [][\A c \in Conns :
       (Reads(c) /\ last_read'[c] = "data" /\ last_exc'[c] # "none")
       => /\ sending'[c] = "server_error"
          /\ nwrites'[c] = nwrites[c] + 1
          /\ StatusOf(sent'[c]) = 500]_vars

\* C9: a read that ends with end of stream or with the idle timeout closes
\* the connection without a write, and a closed connection neither reads
\* nor writes again.
C9_EofOrTimeoutCloses ==
  [][\A c \in Conns :
       /\ (Reads(c) /\ last_read'[c] \in {"eof", "timeout"})
            => (state'[c] = "Closing" /\ nwrites'[c] = nwrites[c])
       /\ state[c] = "Closing"
            => /\ state'[c] = "Closing"
               /\ nreads'[c] = nreads[c] /\ nwrites'[c] = nwrites[c]]_vars

\* One connection closed at end of stream after an exchange, another on
\* the idle timeout.
C9_Witness ==
  \E c, d \in Conns :
    /\ state[c] = "Closing" /\ last_read[c] = "eof" /\ nwrites[c] = 1
    /\ state[d] = "Closing" /\ last_read[d] = "timeout"

\* C10: once a read or a drain of a connection raised a socket error, the
\* connection is closed and nothing is written to it, in that step and in
\* every later one.
C10_TransportErrorSilent ==
  [][\A c \in Conns :
       transport_error'[c]
         => (nwrites'[c] = nwrites[c] /\ state'[c] = "Closing")]_vars

\* One connection closed by a socket error of its read, another by a
\* socket error of the drain of a response.
C10_Witness ==
  \E c, d \in Conns :
    /\ transport_error[c] /\ last_read[c] = "error" /\ state[c] = "Closing"
    /\ transport_error[d] /\ last_read[d] = "data" /\ state[d] = "Closing"
    /\ nwrites[d] = 1

\* What the storage port answers to the GET or POST of the request.
StorageOutcome(fs, request) ==
  IF request.method = <<"GET">> THEN read_file(fs, request.route_param)
  ELSE write_file(fs, request.route_param, Encode(request.body).val)

\* Connection c reads a GET or POST for the registered files route and the
\* storage port fails, neither with "not found" nor with a security
\* violation.
OtherStorageFailure(c) ==
  /\ Reads(c) /\ state'[c] = "Sending" /\ http_request'[c] # None
  /\ http_request'[c].route = <<"files">> /\ <<"files">> \in DOMAIN _handlers
  /\ http_request'[c].method \in {<<"GET">>, <<"POST">>}
  /\ StorageOutcome(files, http_request'[c]).tag = "raise"
  /\ StorageOutcome(files, http_request'[c]).exc
       \notin {"FileNotFoundError", "FileSecurityError"}

\* C11 as stated: every failure of the storage port that is neither "not
\* found" nor a security violation is answered 500 with empty body, for GET
\* and for POST.
C11_OtherFailure500 ==
  [][\A c \in Conns :
       OtherStorageFailure(c)
         => StatusOf(sent'[c]) = 500 /\ sent'[c].body = Bytes(<<>>)]_vars

\* C11: on the files route a failure of the storage port that is neither
\* "not found" nor a security violation is answered with empty body, for
\* GET and for POST: 403 when it is the permission denial of the operating
\* system, 500 for every other failure.
C11_DeniedOr500 ==
  [][\A c \in Conns :
       OtherStorageFailure(c)
         => /\ StatusOf(sent'[c]) =
                 (IF StorageOutcome(files, http_request'[c]).exc = "PermissionError"
                  THEN 403 ELSE 500)
            /\ sent'[c].body = Bytes(<<>>)]_vars

\* A GET of a file the device fails to read is answered 500, after a
\* request answered 403.
C11_Witness ==
  /\ state[Client] = "Sending" /\ http_request[Client] # None
  /\ OnFiles(http_request[Client], <<"GET">>)
  /\ read_file(files, http_request[Client].route_param) = Raise("OSError")
  /\ StatusOf(sent[Client]) = 500
  /\ prev_status[Client] = 403

\* Connection c reads a request with the given method for the registered
\* files route.
ReadsOnFiles(c, methods) ==
  /\ Reads(c) /\ state'[c] = "Sending" /\ http_request'[c] # None
  /\ http_request'[c].route = <<"files">> /\ <<"files">> \in DOMAIN _handlers
  /\ http_request'[c].method \in methods

\* The path of the name under the storage root.
Stored(name) == Join(base_dir, name)

\* The body of the request is the content of the regular file at the path.
Holds(fs, path, body) == IsFile(fs, path) /\ fs[path].data = body.v

\* C12 as stated: a POST on the files route with a name inside the storage
\* root stores the request body under that name and is answered 201 with
\* empty body; a security violation of the storage port is answered 403.
C12_PostInsideRoot ==
  [][\A c \in Conns :
       ReadsOnFiles(c, {<<"POST">>})
         => LET request == http_request'[c] IN
            IF write_file(files, request.route_param, Encode(request.body).val)
                 = Raise("FileSecurityError")
            THEN StatusOf(sent'[c]) = 403
            ELSE /\ StatusOf(sent'[c]) = 201 /\ sent'[c].body = Bytes(<<>>)
                 /\ Holds(files', Stored(request.route_param), request.body)]_vars

\* The path of the name can be written: it is inside the root, it is not a
\* directory, no ancestor of it is a regular file, and the operating system
\* and the device permit the write.
Writable(fs, name) ==
  /\ ~Escapes(name) /\ Find(name, NulByte) = 0
  /\ ~IsDir(fs, Stored(name))
  /\ \A i \in 0..(Len(Stored(name)) - 1) : ~IsFile(fs, SubSeq(Stored(name), 1, i))
  /\ IsFile(fs, Stored(name)) => fs[Stored(name)].mode = "rw"

\* C12: a POST on the files route with a name inside the storage root whose
\* path can be written stores the request body under that name, changes no
\* other file, and is answered 201 with empty body; a security violation of
\* the storage port is answered 403 and changes no file.
C12_PostWritable ==
  [][\A c \in Conns :
       ReadsOnFiles(c, {<<"POST">>})
         => LET request == http_request'[c]
                path == Stored(request.route_param)
            IN /\ Writable(files, request.route_param)
                   => /\ StatusOf(sent'[c]) = 201 /\ sent'[c].body = Bytes(<<>>)
                      /\ Holds(files', path, request.body)
                      /\ \A q \in DOMAIN files \ {path} :
                           q \in DOMAIN files' /\ files'[q] = files[q]
               /\ write_file(files, request.route_param, Encode(request.body).val)
                    = Raise("FileSecurityError")
                   => StatusOf(sent'[c]) = 403 /\ files' = files]_vars

\* The POST of "abc" to sub/c is answered 201 and the file holds "abc",
\* after a POST that was answered 403.
C12_Witness ==
  /\ state[Client] = "Sending" /\ http_request[Client] # None
  /\ OnFiles(http_request[Client], <<"POST">>)
  /\ http_request[Client].route_param = <<"sub", SLASH, "c">>
  /\ StatusOf(sent[Client]) = 201
  /\ Holds(files, <<<<"srv">>, <<"sub">>, <<"c">>>>, Str(<<"abc">>))
  /\ prev_status[Client] = 403

\* C13: every request on the files route whose method is neither GET nor
\* POST is answered 405 with the header line "Allow: GET, POST" and empty
\* body, and the file system is left as it was.
C13_MethodNotAllowed ==
  [][\A c \in Conns :
       ReadsOnFiles(c, SUPPORTED_HTTP_METHODS \ {<<"GET">>, <<"POST">>})
         => /\ StatusOf(sent'[c]) = 405
            /\ HasLine(sent'[c], "Allow", "GET, POST")
            /\ sent'[c].body = Bytes(<<>>)
            /\ files' = files]_vars

\* A PUT with a body on the files route is answered 405 after another
\* request answered 405.
C13_Witness ==
  /\ state[Client] = "Sending" /\ http_request[Client] # None
  /\ OnFiles(http_request[Client], <<"PUT">>)
  /\ http_request[Client].body = Str(<<"x">>)
  /\ StatusOf(sent[Client]) = 405
  /\ prev_status[Client] = 405

\* The comma-separated value offers gzip: it has a "gzip" with nothing but
\* whitespace between it and the commas (or ends) around it.
OffersGzip(v) ==
  \E i \in 1..Len(v) :
    /\ v[i] = "gzip"
    /\ \A j \in 1..Len(v) :
         (j # i /\ \A k \in (IF j < i THEN j..i ELSE i..j) : v[k] # ",")
           => v[j] \in Whitespace

\* The bytes carry no header line of that name.
NoLine(bytes, name) ==
  \A i \in 1..Len(bytes.headers_lines) : bytes.headers_lines[i][1] # name

\* C14: to_bytes selects gzip exactly when a trimmed token of the
\* comma-separated Accept-Encoding value is "gzip"; the body is then sent
\* compressed with "Content-Encoding: gzip".  When the header is absent or
\* no token matches, the body is sent as it is and the response carries no
\* Content-Encoding line.
C14_Negotiation ==
  (pure_in.tag = "to_bytes" /\ pure_out # Idle)
    => LET offered == pure_in.arg # None /\ OffersGzip(pure_in.arg.v)
       IN /\ pure_out.tag = "ok"
          /\ _negotiate_compression(pure_in.arg)
               = (IF offered THEN Str(<<"gzip">>) ELSE None)
          /\ IF offered
             THEN /\ pure_out.val.body = GzipCompress(Bytes(pure_in.response.body.v))
                  /\ HasLine(pure_out.val, "Content-Encoding", "gzip")
             ELSE /\ pure_out.val.body = Bytes(pure_in.response.body.v)
                  /\ NoLine(pure_out.val, "Content-Encoding")

\* "deflate, gzip" was answered with a compressed body.
C14_Witness ==
  /\ pure_in.tag = "to_bytes" /\ pure_out # Idle
  /\ pure_in.arg = Str(<<"deflate", ",", SP, "gzip">>)
  /\ pure_in.response.body = Str(<<"hi">>)
  /\ HasLine(pure_out.val, "Content-Encoding", "gzip")
  /\ pure_out.val.body = Bytes(<<"gzip1f8b", "hi", "gzipcrc">>)

\* C15 as stated: the bytes sent for a parsed request whose Accept-Encoding
\* header is "gzip" carry "Content-Encoding: gzip", a body whose
\* decompression is the body of the router's response, and a
\* Content-Length equal to the length of the compressed body.
C15_GzipRoundTrip ==
  \A c \in Conns :
    (/\ state[c] = "Sending" /\ http_request[c] # None
     /\ Get(http_request[c].headers, <<"accept-encoding">>, <<>>) = <<"gzip">>)
      => /\ HasLine(sent[c], "Content-Encoding", "gzip")
         /\ GzipDecompress(sent[c].body) = Bytes(response[c].body.v)
         /\ HasLine(sent[c], "Content-Length", ToString(ByteLen(sent[c].body.v)))

\* C16: the bytes of every response written end their header lines with
\* the one Content-Length line, whose value is the number of bytes of the
\* body that follows, as sent.
C16_ContentLengthLast ==
  \A c \in Conns :
    sent[c] # None
      => LET h == sent[c].headers_lines
         IN /\ Len(h) >= 1
            /\ h[Len(h)] = <<"Content-Length", ToString(ByteLen(sent[c].body.v))>>
            /\ \A i \in 1..(Len(h) - 1) : h[i][1] # "Content-Length"

\* A compressed response to a request that asked to close: Connection and
\* Content-Encoding precede Content-Length.
C16_Witness ==
  /\ state[Client] = "Sending" /\ sent[Client] # None
  /\ sent[Client].headers_lines
       = << <<"Content-Type", "text/plain">>, <<"Connection", "close">>,
            <<"Content-Encoding", "gzip">>, <<"Content-Length", "22">> >>
  /\ sent[Client].body = Bytes(<<"gzip1f8b", "hi", "gzipcrc">>)

\* The path is /echo/<text>, and its <text>.
IsEchoPath(path) ==
  Len(path) >= 3 /\ path[1] = SLASH /\ path[2] = "echo" /\ path[3] = SLASH
EchoText(path) == SubSeq(path, 4, Len(path))

\* The text without the slashes it ends with.
WithoutTrailingSlashes(text) ==
  LET n == CHOOSE n \in 0..Len(text) :
             /\ n = 0 \/ text[n] # SLASH
             /\ \A k \in (n + 1)..Len(text) : text[k] = SLASH
  IN SubSeq(text, 1, n)

\* The body of the bytes before the compression named by their
\* Content-Encoding line.
PlainBody(bytes) ==
  IF HasLine(bytes, "Content-Encoding", "gzip")
  THEN GzipDecompress(bytes.body) ELSE bytes.body

\* Connection c is sending the answer to a parsed request for /echo/<text>.
AnswersEcho(c) ==
  /\ state[c] = "Sending" /\ http_request[c] # None
  /\ IsEchoPath(http_request[c].path)

\* C17 as stated: a valid request for /echo/<text>, with any supported
\* method, is answered 200 with "Content-Type: text/plain" and a body equal
\* to <text>, a trailing slash included.
C17_EchoIdentity ==
  \A c \in Conns :
    AnswersEcho(c)
      => /\ StatusOf(sent[c]) = 200
         /\ HasLine(sent[c], "Content-Type", "text/plain")
         /\ PlainBody(sent[c]) = Bytes(EchoText(http_request[c].path))

\* C17: a valid request for /echo/<text>, with any supported method, is
\* answered 200 with "Content-Type: text/plain" and a body equal to <text>
\* without its trailing slashes; slashes at the start of and inside <text>
\* are kept.
C17_EchoWithoutTrailingSlash ==
  \A c \in Conns :
    AnswersEcho(c)
      => /\ StatusOf(sent[c]) = 200
         /\ HasLine(sent[c], "Content-Type", "text/plain")
         /\ PlainBody(sent[c])
              = Bytes(WithoutTrailingSlashes(EchoText(http_request[c].path)))

\* The PATCH of /echo/hi is answered with "hi" after the answer to another
\* request.
C17_Witness ==
  /\ AnswersEcho(Client)
  /\ http_request[Client].method = <<"PATCH">>
  /\ sent[Client].body = Bytes(<<"hi">>)
  /\ prev_status[Client] = 200

\* C18: a parsed request whose route is not a key of the route table gets
\* the router's 404 response with empty body and no header of a handler,
\* and the file system is left as it was, also when a key of the table
\* is a prefix of the route.
C18_ExactMatch ==
  [][\A c \in Conns :
       (/\ Reads(c) /\ state'[c] = "Sending" /\ http_request'[c] # None
        /\ http_request'[c].route \notin DOMAIN _handlers)
         => /\ response'[c] # None
            /\ response'[c].status = 404
            /\ response'[c].body = Str(<<>>)
            /\ \A i \in 1..Len(response'[c].headers) :
                 response'[c].headers[i] = <<"Connection", "close">>
            /\ StatusOf(sent'[c]) = 404
            /\ files' = files]_vars

\* The POST of /files:x/a, whose route files:x begins with the key files,
\* is answered 404.
C18_Witness ==
  /\ state[Client] = "Sending" /\ http_request[Client] # None
  /\ http_request[Client].route = <<"files", ":", "x">>
  /\ http_request[Client].method = <<"POST">>
  /\ <<"files">> \in DOMAIN _handlers
  /\ StatusOf(sent[Client]) = 404

\* parse was applied to the bytes raw and returned.
Parsed == pure_in.tag = "parse" /\ pure_out # Idle

\* C19 as stated: in every Request the parser produces, route is
\* lower-case and contains no slash, and route_param is empty or does not
\* start with a slash.
C19_RouteShape ==
  (Parsed /\ pure_out.tag = "ok")
    => LET request == pure_out.val
       IN /\ Lower(request.route) = request.route
          /\ Find(request.route, SLASH) = 0
          /\ request.route_param = <<>> \/ Head(request.route_param) # SLASH

\* The part of s before the first token t, s when there is none.
Before(s, t) ==
  IF \E i \in 1..Len(s) : s[i] = t
  THEN SubSeq(s, 1, (CHOOSE i \in 1..Len(s) :
                       s[i] = t /\ \A j \in 1..(i - 1) : s[j] # t) - 1)
  ELSE s

\* The class of the bytes by the rule of the claim, in its order.
ClassOf(raw) ==
  LET line == Before(raw, CRLF) IN
  IF raw = <<>> THEN "EmptyRequestError"
  ELSE IF \E i \in 1..Len(raw) : raw[i] = BadByte THEN "InvalidEncodingError"
  ELSE IF \A i \in 1..Len(line) : line[i] # SP THEN "InvalidRequestLineError"
  ELSE IF Before(line, SP) \notin SUPPORTED_HTTP_METHODS THEN "InvalidHTTPMethodError"
  ELSE "Request"

\* C20: parse raises EmptyRequestError on empty input, else
\* InvalidEncodingError on bytes that are not UTF-8, else
\* InvalidRequestLineError on a first line without a second space-separated
\* token, else InvalidHTTPMethodError on a first token that is not a
\* supported method; on every other input it returns a Request.
C20_Classification ==
  Parsed
    => IF ClassOf(pure_in.arg.v) = "Request"
       THEN pure_out.tag = "ok"
       ELSE pure_out = Raise(ClassOf(pure_in.arg.v))

\* "TRACE " followed by a blank line was rejected for its method.
C20_Witness ==
  /\ Parsed
  /\ pure_in.arg = Bytes(<<"TRACE", SP, CRLF, CRLF>>)
  /\ pure_out = Raise("InvalidHTTPMethodError")

\* The header lines of the bytes named name in any case, as the indices of
\* their first token: the token opens a line after the request line and a
\* colon follows it.
HeaderLinesOf(raw, name) ==
  {i \in 2..(Len(raw) - 1) :
     raw[i - 1] = CRLF /\ LowerTok(raw[i]) = name /\ raw[i + 1] = ":"}

\* The tokens of the line after the colon at i, without the spaces around
\* them.
ValueAfter(raw, i) ==
  LET end == CHOOSE e \in i..Len(raw) :
               /\ e = Len(raw) \/ raw[e + 1] = CRLF
               /\ \A k \in (i + 1)..e : raw[k] # CRLF
      inner == {k \in (i + 1)..end : raw[k] # SP}
  IN IF inner = {} THEN <<>>
     ELSE SubSeq(raw, CHOOSE a \in inner : \A k \in inner : a <= k,
                      CHOOSE b \in inner : \A k \in inner : k <= b)

\* The trimmed value of the header of the bytes, empty when it is absent.
SentHeader(raw, name) ==
  IF HeaderLinesOf(raw, name) = {} THEN <<>>
  ELSE LET last == CHOOSE i \in HeaderLinesOf(raw, name) :
                     \A k \in HeaderLinesOf(raw, name) : k <= i
       IN ValueAfter(raw, last + 1)

\* C21: a parsed request for the user-agent route is answered 200 with
\* "Content-Type: text/plain" and a body equal to the trimmed value of the
\* User-Agent header of the bytes read, its name in any case, empty when
\* the header is absent: the body depends on nothing else.
C21_UserAgent ==
  \A c \in Conns :
    (/\ state[c] = "Sending" /\ http_request[c] # None
     /\ http_request[c].route = <<"user-agent">>)
      => /\ StatusOf(sent[c]) = 200
         /\ HasLine(sent[c], "Content-Type", "text/plain")
         /\ PlainBody(sent[c]) = Bytes(SentHeader(raw_request[c], "user-agent"))

\* The second request of a connection for the user-agent route is
\* answered with the value of its header, as the first was answered.
C21_Witness ==
  /\ state[Client] = "Sending" /\ http_request[Client] # None
  /\ http_request[Client].route = <<"user-agent">>
  /\ HeaderLinesOf(raw_request[Client], "user-agent") # {}
  /\ PlainBody(sent[Client]) = Bytes(<<"curl", SLASH, "7", SP, "x">>)
  /\ nreads[Client] = 2 /\ prev_status[Client] = 200

(***************************************************************************)
(* Liveness.  A few requests, one for each way the loop goes on or ends,   *)
(* on every connection.                                                    *)
(***************************************************************************)
\* Bytes that clients keep sending.
Probe == <<"GET", CRLF, CRLF>>

LiveRequests ==
  { Line("GET", <<SLASH>>) \o <<CRLF>>,
    Line("GET", <<SLASH, "echo", SLASH, "hi">>) \o Header("Connection", <<"close">>) \o <<CRLF>>,
    Line("GET", <<SLASH, "hook">>) \o Host \o <<CRLF>>,
    Line("GET", FilePath(<<"a">>)) \o Host \o <<CRLF>>,
    Line("TRACE", <<SLASH>>) \o Header("Connection", <<"close">>) \o <<CRLF>>,
    Line("POST", FilePath(<<"a">>)) \o Host \o <<CRLF, "abc">>,
    Line("POST", FilePath(<<"a">>)) \o Host \o <<CRLF, "x">>,
    Probe }

NextLive ==
  \E c \in Conns :
    \/ Accept(c)
    \/ \E raw \in LiveRequests : ReceiveData(c, raw)
    \/ ReceiveEOF(c)
    \/ ReceiveTimeout(c)
    \/ \E exc \in ReadErrors : ReceiveError(c, exc)
    \/ DrainOk(c)
    \/ \E exc \in WriteErrors : DrainError(c, exc)

SpecFew == Init /\ [][NextLive]_vars

\* Bytes that arrive on a connection whose loop is suspended in its read
\* complete that read: the event loop resumes every task that is ready.
SpecArrivals ==
  /\ Init /\ [][NextLive]_vars
  /\ \A c \in Conns : WF_vars(ReceiveData(c, Probe))

C23_RouteTableFixed == [][_handlers' = _handlers]_vars

\* Two connections have each had a request handled, one of them a POST
\* that stored a file, and the table with the added route is as built.
C23_Witness ==
  /\ \A c \in Conns : nreads[c] >= 1
  /\ posted # <<>>
  /\ _handlers = register(_create_default_router(Served), <<"hook">>, "PluggedHandler")

\* The lines of s between CRLFs, each as <<first, last>> indices (last is
\* first - 1 for an empty line).
LinesOf(s) ==
  {<<i, e>> \in (1..(Len(s) + 1)) \X (0..Len(s)) :
     /\ i = 1 \/ s[i - 1] = CRLF
     /\ e >= i - 1
     /\ e = Len(s) \/ s[e + 1] = CRLF
     /\ \A k \in i..e : s[k] # CRLF}

\* The index of the first colon of the line, 0 when it has none.
FirstColon(s, l) ==
  IF \E k \in l[1]..l[2] : s[k] = ":"
  THEN CHOOSE k \in l[1]..l[2] : s[k] = ":" /\ \A j \in l[1]..(k - 1) : s[j] # ":"
  ELSE 0

\* The tokens a..b of s without the spaces at their ends.
Trimmed(s, a, b) ==
  LET inner == {k \in a..b : s[k] # SP}
  IN IF inner = {} THEN <<>>
     ELSE SubSeq(s, CHOOSE x \in inner : \A k \in inner : x <= k,
                    CHOOSE y \in inner : \A k \in inner : k <= y)

KeyOfLine(s, l) == Lower(Trimmed(s, l[1], FirstColon(s, l) - 1))
ValueOfLine(s, l) == Trimmed(s, FirstColon(s, l) + 1, l[2])

\* The headers the claim describes for the header string s.
HeadersOf(s) ==
  LET lines == {l \in LinesOf(s) : FirstColon(s, l) # 0}
      LastWith(k) == CHOOSE l \in lines :
                       /\ KeyOfLine(s, l) = k
                       /\ \A m \in lines : KeyOfLine(s, m) = k => m[1] <= l[1]
  IN [k \in {KeyOfLine(s, l) : l \in lines} |-> ValueOfLine(s, LastWith(k))]

\* C24: _parse_headers returns for every header string; each line is split
\* at its first colon, lines without a colon are skipped, the key is
\* trimmed and lower-cased, the value is trimmed, and of the lines with the
\* same key the last one gives the value stored.
C24_Headers ==
  (pure_in.tag = "_parse_headers" /\ pure_out # Idle)
    => pure_out = Ok(HeadersOf(pure_in.arg.v))

\* "A:" and "a: b" on two lines give the one key a with the value b.
C24_Witness ==
  /\ pure_in.tag = "_parse_headers" /\ pure_out # Idle
  /\ pure_in.arg = Str(<<"A", ":", CRLF, "A", ":", "b">>)
  /\ pure_out.val = (<<"a">> :> <<"b">>)

\* The timer of wait_for fires when no bytes arrive within
\* CONNECTION_TIMEOUT, and every drain returns or raises.
SpecTimeouts ==
  /\ Init /\ [][NextLive]_vars
  /\ \A c \in Conns :
       /\ WF_vars(ReceiveTimeout(c))
       /\ WF_vars(DrainOk(c) \/ \E exc \in WriteErrors : DrainError(c, exc))

\* C25: every accepted connection is closed in the end, once its peer
\* sends no more: whether it waits in a read or in a send, the timeout of
\* the read it is in or comes to, or an earlier exit of the loop, closes it.
C25_EventuallyClosed ==
  \A c \in Conns :
    (state[c] \in {"AwaitingRequest", "Sending"}) ~> (state[c] = "Closing")

\* A connection answered once was closed by the timeout of its second
\* read.
C25_Witness ==
  \E c \in Conns :
    /\ state[c] = "Closing" /\ last_read[c] = "timeout"
    /\ nreads[c] = 2 /\ nwrites[c] = 1

\* C26 as stated: a read that returns bytes is followed by at most one
\* write before the next read, and by exactly one when no error of the
\* transport occurs, whether the bytes hold a request, two requests or a
\* part of one.
C26_OneReadOneResponse ==
  [][\A c \in Conns :
       (Reads(c) /\ last_read'[c] = "data")
         => /\ nwrites'[c] <= nwrites[c] + 1
            /\ ~transport_error'[c] => nwrites'[c] = nwrites[c] + 1]_vars

\* C27: a step that changes the file system is the handling of a POST on
\* the files route whose name passes validation and which is not answered
\* 403: every GET, every request answered 405 or 403, every request for
\* another route and every step that handles no request leave it as it
\* was.
C27_StorageFrame ==
  [][files' # files
       => \E c \in Conns :
            /\ ReadsOnFiles(c, {<<"POST">>})
            /\ _validate_path(http_request'[c].route_param).tag = "ok"
            /\ StatusOf(sent'[c]) # 403]_vars

\* A PUT on the files route is answered 405 after a POST that stored "x"
\* in b: the file system differs from the initial one by that file alone.
C27_Witness ==
  /\ state[Client] = "Sending" /\ StatusOf(sent[Client]) = 405
  /\ prev_status[Client] = 201
  /\ files = [q \in DOMAIN Served \cup {Append(base_dir, <<"b">>)} |->
                IF q = Append(base_dir, <<"b">>) THEN File(<<"x">>, 1, "rw")
                ELSE Served[q]]

\* C28: the file of every name that a POST answered 201 has stored holds
\* exactly the body of the last such POST: after two POSTs to the same
\* name from two connections the content is the later body, whole.
C28_LastPostWhole ==
  \A p \in DOMAIN posted : IsFile(files, p) /\ files[p].data = posted[p].v

\* Two connections are each sending 201 for a POST to the name a, with
\* different bodies, and the file holds the body of one of them.
C28_Witness ==
  \E c, d \in Conns :
    /\ c # d /\ state[c] = "Sending" /\ state[d] = "Sending"
    /\ http_request[c] # None /\ http_request[d] # None
    /\ OnFiles(http_request[c], <<"POST">>) /\ OnFiles(http_request[d], <<"POST">>)
    /\ http_request[c].route_param = <<"a">> /\ http_request[d].route_param = <<"a">>
    /\ http_request[c].body = Str(<<"abc">>) /\ http_request[d].body = Str(<<"x">>)
    /\ StatusOf(sent[c]) = 201 /\ StatusOf(sent[d]) = 201
    /\ Holds(files, Append(base_dir, <<"a">>), Str(<<"x">>))

\* C29: when the configured directory does not exist or is not a
\* directory, the route table has no files route, every parsed request for
\* the files route, whatever its method, is answered 404 and changes no
\* file, and the requests for the other routes are answered as by a server
\* that has the files route.
C29_NoFilesRoute ==
  [][\A c \in Conns :
       (/\ Reads(c) /\ state'[c] = "Sending" /\ http_request'[c] # None
        /\ ~IsDir(files, base_dir))
         => /\ <<"files">> \notin DOMAIN _handlers
            /\ http_request'[c].route = <<"files">>
                 => StatusOf(sent'[c]) = 404 /\ files' = files
            /\ http_request'[c].route # <<"files">>
                 => sent'[c] \in {o.sent : o \in LoopBody(_create_default_router(Served),
                                                         files, raw_request'[c])}]_vars

\* With a regular file in the place of the directory, a POST for the
\* files route is answered 404 after a request answered 200.
C29_Witness ==
  /\ IsFile(files, base_dir)
  /\ state[Client] = "Sending" /\ http_request[Client] # None
  /\ OnFiles(http_request[Client], <<"POST">>)
  /\ StatusOf(sent[Client]) = 404
  /\ prev_status[Client] = 200

====
